---------------------------- MODULE Spec2Model ----------------------------
(***************************************************************************)
(* BankGuard AI: the behavioural-biometrics collector                      *)
(* (BehavioralBiometricsCollector, src/unnamed/part_000), the on-device    *)
(* response engine (MainActivity.kt) and the server pipeline               *)
(* (FraudDetectionService, src/server/src/services/fraudDetection.ts).     *)
(*                                                                         *)
(* Times are milliseconds.  Risk scores are fixed-point, in units of       *)
(* 1/10000: 3000 is 0.3, 9499 is 0.9499.  The float and double comparisons *)
(* of the source against the literals 0.3, 0.6, 0.8 and 0.95 agree with    *)
(* the exact comparison on every score of this resolution.                 *)
(***************************************************************************)
EXTENDS Integers, Sequences, FiniteSets

(***************************************************************************)
(* Program constants.                                                      *)
(***************************************************************************)
COLLECTION_INTERVAL_MS == 5000

\* RISK_THRESHOLDS of FraudDetectionService; MainActivity uses the same
\* literals 0.3f, 0.6f, 0.8f, 0.95f.
RISK_LOW == 3000
RISK_MEDIUM == 6000
RISK_HIGH == 8000
RISK_CRITICAL == 9500
\* validateMetrics: the largest valid risk score and confidence level, 1.0
MAX_RISK == 10000

\* new Date(Date.now() + 5 * 60 * 1000)
STEP_UP_EXPIRY_MS == 5 * 60 * 1000

(***************************************************************************)
(* Bounds of the model.  The buffer caps of the source are 100 touch       *)
(* events (MAX_TOUCH_EVENTS), 50 typing events (MAX_TYPING_EVENTS) and     *)
(* 1000 sensor samples (the literal in onSensorChanged); the model runs    *)
(* the same code with the caps scaled down.                                *)
(***************************************************************************)
MAX_TOUCH_EVENTS == 2
MAX_TYPING_EVENTS == 2
MAX_SENSOR_SAMPLES == 2
\* the cap a bounded navigation buffer would have; the source gives it none
MAX_NAVIGATION_EVENTS == 3
\* the clock stops here
MaxTime == 15000
\* events ingested in one run
MaxEvents == 4
\* tick-loop coroutines alive at once
MaxLoops == 2
\* sessions started in one run
MaxSessions == 2

VARIABLES
    now,               \* System.currentTimeMillis()
    consent,           \* privacyManager.hasUserConsent()
    isCollecting,
    sessionId,         \* the n-th UUID drawn; every draw is fresh
    sessionStartTime,
    touchEvents,
    typingEvents,
    sensorData,
    navigationEvents,
    sensorRegistered,  \* this is registered with the SensorManager
    loops,             \* live coroutines of startPeriodicProcessing: wake-up times
    callbacks,         \* invocations of dataCallback made by the last operation
    caught,            \* the last operation caught an exception in processCollectedData
    eventSeq,          \* events created so far (the identity of an event)
    lastOp,            \* the operation that ran last
    lastError,         \* what it threw to its caller ("none": it returned)
    \* the response engines, applied to one input
    dateNow,           \* Date.now() when a response is determined
    inRisk,            \* riskScore
    inFlags,           \* anomalyFlags
    serverResponse,    \* FraudDetectionService.determineSecurityResponse's result
    deviceResponse,    \* MainActivity.determineSecurityResponse's result
    \* the server pipeline
    metrics,           \* the argument of the last processBehavioralMetrics call
    srv,               \* what that call did and returned
    terminalSessions,  \* history: the sessions a call answered with
                       \* session_termination or account_lock
    \* the collector's operations as steps of concurrent threads
    calls,             \* the ingestion calls in progress, per calling thread
    tick,              \* the locals of the tick coroutine inside processCollectedData
    sessionFirstSeq,   \* history: eventSeq when the current session started
    \* the on-device pipeline
    dev,               \* MainActivity: what the last data callback did, and the UI state
    \* the server's outputs for two inputs
    pair,              \* two metrics records, and the rows and alerts written for each
    \* feature extraction
    feat,              \* a snapshot of one category, and the vector extracted from it
    \* the collector's coroutine scope
    scopeActive,       \* collectionScope has not been cancelled
    \* the activity
    activity           \* MainActivity: its UI state and its launched coroutines

collectorVars ==
    <<now, consent, isCollecting, sessionId, sessionStartTime, touchEvents,
      typingEvents, sensorData, navigationEvents, sensorRegistered, loops,
      callbacks, caught, eventSeq, lastOp, lastError>>

buffers == <<touchEvents, typingEvents, sensorData, navigationEvents>>

scopeVars == <<scopeActive>>

(***************************************************************************)
(* The collector.                                                          *)
(***************************************************************************)
\* TouchEvent / TypingEvent / SensorData / NavigationEvent: the timestamp and
\* the identity of the event (standing for its category-specific fields).
NewEvent == [timestamp |-> now, seq |-> eventSeq + 1]

\* Mutant of PushCapped: at capacity the newest entry is removed, not the oldest.
PushCappedDropNewest(buf, e, cap) ==
    IF Len(buf) < cap THEN Append(buf, e)
    ELSE Append(SubSeq(buf, 1, Len(buf) - 1), e)

\* if (size < MAX) add(e) else { removeAt(0); add(e) }
PushCapped(buf, e, cap) ==
    IF Len(buf) < cap THEN Append(buf, e) ELSE Append(Tail(buf), e)

\* add(e); if (size > 1000) removeAt(0)
PushThenTrim(buf, e, cap) ==
    LET added == Append(buf, e)
    IN  IF Len(added) > cap THEN Tail(added) ELSE added

\* removeAll { it.timestamp < cutoffTime }
RemoveOlder(buf, cutoffTime) ==
    SelectSeq(buf, LAMBDA e : ~(e.timestamp < cutoffTime))

clearCollectedData ==
    /\ touchEvents' = <<>>
    /\ typingEvents' = <<>>
    /\ sensorData' = <<>>
    /\ navigationEvents' = <<>>

clearOldData ==
    LET cutoffTime == now - (COLLECTION_INTERVAL_MS * 2)
    IN  /\ touchEvents' = RemoveOlder(touchEvents, cutoffTime)
        /\ typingEvents' = RemoveOlder(typingEvents, cutoffTime)
        /\ sensorData' = RemoveOlder(sensorData, cutoffTime)
        /\ navigationEvents' = RemoveOlder(navigationEvents, cutoffTime)

\* What one run of processCollectedData can do: "ok", or an exception while
\* the features are extracted or the metrics built ("metricsThrows": no
\* callback), or an exception out of the data callback ("callbackThrows").
\* Either exception is caught and logged, and clearOldData is skipped.
TickOutcomes == {"ok", "metricsThrows", "callbackThrows"}

\* dataCallback?.invoke(metrics) is reached unless an earlier line threw
CallbackInvocations(outcome) == IF outcome = "metricsThrows" THEN 0 ELSE 1

processCollectedData(outcome) ==
    /\ callbacks' = CallbackInvocations(outcome)
    /\ caught' = (outcome # "ok")
    /\ IF outcome = "ok" THEN clearOldData ELSE UNCHANGED buffers

\* The wake-up times of the live tick loops, kept in ascending order (a bag).
RECURSIVE InsertLoop(_, _)
InsertLoop(ls, wake) ==
    IF ls = <<>> THEN <<wake>>
    ELSE IF wake <= Head(ls) THEN <<wake>> \o ls
    ELSE <<Head(ls)>> \o InsertLoop(Tail(ls), wake)

RemoveLoop(ls, i) == SubSeq(ls, 1, i - 1) \o SubSeq(ls, i + 1, Len(ls))

\* collectionScope.launch { while (isCollecting) { delay(..); ... } }
\* collectionScope.launch { .. }: on a cancelled scope the coroutine never runs
startPeriodicProcessing ==
    loops' = IF scopeActive THEN InsertLoop(loops, now + COLLECTION_INTERVAL_MS) ELSE loops

\* Mutant of startCollection: the collecting flag is set before the consent
\* check, so a start refused for lack of consent leaves it set.
startCollectionFlagFirst ==
    /\ lastOp' = "startCollection"
    /\ callbacks' = 0
    /\ caught' = FALSE
    /\ IF isCollecting
       THEN /\ lastError' = "none"
            /\ UNCHANGED <<now, consent, isCollecting, sessionId, sessionStartTime,
                           buffers, sensorRegistered, loops, eventSeq>>
       ELSE IF ~consent
       THEN /\ lastError' = "SecurityException"
            /\ isCollecting' = TRUE
            /\ UNCHANGED <<now, consent, sessionId, sessionStartTime,
                           buffers, sensorRegistered, loops, eventSeq>>
       ELSE /\ Len(loops) < MaxLoops
            /\ sessionId < MaxSessions
            /\ lastError' = "none"
            /\ isCollecting' = TRUE
            /\ sessionId' = sessionId + 1
            /\ sessionStartTime' = now
            /\ clearCollectedData
            /\ sensorRegistered' = TRUE
            /\ startPeriodicProcessing
            /\ UNCHANGED <<now, consent, eventSeq>>

\* Mutant of startCollection: no check of the collecting flag, so a second
\* start begins a new session.
startCollectionNoGuard ==
    /\ lastOp' = "startCollection"
    /\ callbacks' = 0
    /\ caught' = FALSE
    /\ IF ~consent
       THEN /\ lastError' = "SecurityException"
            /\ UNCHANGED <<now, consent, isCollecting, sessionId, sessionStartTime,
                           buffers, sensorRegistered, loops, eventSeq>>
       ELSE /\ Len(loops) < MaxLoops
            /\ sessionId < MaxSessions
            /\ lastError' = "none"
            /\ isCollecting' = TRUE
            /\ sessionId' = sessionId + 1
            /\ sessionStartTime' = now
            /\ clearCollectedData
            /\ sensorRegistered' = TRUE
            /\ startPeriodicProcessing
            /\ UNCHANGED <<now, consent, eventSeq>>

startCollection ==
    /\ lastOp' = "startCollection"
    /\ callbacks' = 0
    /\ caught' = FALSE
    /\ IF isCollecting
       THEN /\ lastError' = "none"
            /\ UNCHANGED <<now, consent, isCollecting, sessionId, sessionStartTime,
                           buffers, sensorRegistered, loops, eventSeq>>
       ELSE IF ~consent
       THEN /\ lastError' = "SecurityException"
            /\ UNCHANGED <<now, consent, isCollecting, sessionId, sessionStartTime,
                           buffers, sensorRegistered, loops, eventSeq>>
       ELSE /\ Len(loops) < MaxLoops
            /\ sessionId < MaxSessions
            /\ lastError' = "none"
            /\ isCollecting' = TRUE
            /\ sessionId' = sessionId + 1
            /\ sessionStartTime' = now
            /\ clearCollectedData
            /\ sensorRegistered' = TRUE
            /\ startPeriodicProcessing
            /\ UNCHANGED <<now, consent, eventSeq>>

stopCollection ==
    /\ lastOp' = "stopCollection"
    /\ lastError' = "none"
    /\ IF ~isCollecting
       THEN /\ callbacks' = 0
            /\ caught' = FALSE
            /\ UNCHANGED <<now, consent, isCollecting, sessionId, sessionStartTime,
                           buffers, sensorRegistered, loops, eventSeq>>
       ELSE /\ isCollecting' = FALSE
            /\ sensorRegistered' = FALSE
            \* processCollectedData(), then clearCollectedData()
            /\ \E outcome \in TickOutcomes :
                  /\ callbacks' = CallbackInvocations(outcome)
                  /\ caught' = (outcome # "ok")
            /\ clearCollectedData
            /\ UNCHANGED <<now, consent, sessionId, sessionStartTime, loops, eventSeq>>

\* Mutant of periodicTick: processCollectedData has no try/catch, so an
\* exception ends the coroutine of the loop.
periodicTickNoCatch ==
    /\ lastOp' = "periodicTick"
    /\ lastError' = "none"
    /\ \E i \in 1..Len(loops) :
          /\ loops[i] <= now
          /\ IF isCollecting
             THEN \E outcome \in TickOutcomes :
                     /\ processCollectedData(outcome)
                     /\ loops' = IF outcome = "ok"
                                 THEN InsertLoop(RemoveLoop(loops, i),
                                                 now + COLLECTION_INTERVAL_MS)
                                 ELSE RemoveLoop(loops, i)
             ELSE /\ loops' = RemoveLoop(loops, i)
                  /\ callbacks' = 0
                  /\ caught' = FALSE
                  /\ UNCHANGED buffers
    /\ UNCHANGED <<now, consent, isCollecting, sessionId, sessionStartTime,
                   sensorRegistered, eventSeq>>

\* One turn of a tick loop, when its delay is over: the tick if the collector
\* is collecting, the end of the loop if it is not.
periodicTick ==
    /\ lastOp' = "periodicTick"
    /\ lastError' = "none"
    /\ \E i \in 1..Len(loops) :
          /\ loops[i] <= now
          /\ IF isCollecting
             THEN /\ \E outcome \in TickOutcomes : processCollectedData(outcome)
                  /\ loops' = InsertLoop(RemoveLoop(loops, i), now + COLLECTION_INTERVAL_MS)
             ELSE /\ loops' = RemoveLoop(loops, i)
                  /\ callbacks' = 0
                  /\ caught' = FALSE
                  /\ UNCHANGED buffers
    /\ UNCHANGED <<now, consent, isCollecting, sessionId, sessionStartTime,
                   sensorRegistered, eventSeq>>

onTouchEvent ==
    /\ lastOp' = "onTouchEvent"
    /\ lastError' = "none"
    /\ callbacks' = 0
    /\ caught' = FALSE
    /\ IF ~isCollecting \/ ~consent
       THEN UNCHANGED <<touchEvents, eventSeq>>
       ELSE /\ eventSeq < MaxEvents
            /\ touchEvents' = PushCapped(touchEvents, NewEvent, MAX_TOUCH_EVENTS)
            /\ eventSeq' = eventSeq + 1
    /\ UNCHANGED <<now, consent, isCollecting, sessionId, sessionStartTime,
                   typingEvents, sensorData, navigationEvents, sensorRegistered,
                   loops>>

onTypingEvent ==
    /\ lastOp' = "onTypingEvent"
    /\ lastError' = "none"
    /\ callbacks' = 0
    /\ caught' = FALSE
    /\ IF ~isCollecting \/ ~consent
       THEN UNCHANGED <<typingEvents, eventSeq>>
       ELSE /\ eventSeq < MaxEvents
            /\ typingEvents' = PushCapped(typingEvents, NewEvent, MAX_TYPING_EVENTS)
            /\ eventSeq' = eventSeq + 1
    /\ UNCHANGED <<now, consent, isCollecting, sessionId, sessionStartTime,
                   touchEvents, sensorData, navigationEvents, sensorRegistered,
                   loops>>

onNavigationEvent ==
    /\ lastOp' = "onNavigationEvent"
    /\ lastError' = "none"
    /\ callbacks' = 0
    /\ caught' = FALSE
    /\ IF ~isCollecting \/ ~consent
       THEN UNCHANGED <<navigationEvents, eventSeq>>
       ELSE /\ eventSeq < MaxEvents
            /\ navigationEvents' = Append(navigationEvents, NewEvent)
            /\ eventSeq' = eventSeq + 1
    /\ UNCHANGED <<now, consent, isCollecting, sessionId, sessionStartTime,
                   touchEvents, typingEvents, sensorData, sensorRegistered,
                   loops>>

onSensorChanged(eventIsNull) ==
    /\ lastOp' = "onSensorChanged"
    /\ lastError' = "none"
    /\ callbacks' = 0
    /\ caught' = FALSE
    /\ IF ~isCollecting \/ eventIsNull
       THEN UNCHANGED <<sensorData, eventSeq>>
       ELSE /\ eventSeq < MaxEvents
            /\ sensorData' = PushThenTrim(sensorData, NewEvent, MAX_SENSOR_SAMPLES)
            /\ eventSeq' = eventSeq + 1
    /\ UNCHANGED <<now, consent, isCollecting, sessionId, sessionStartTime,
                   touchEvents, typingEvents, navigationEvents, sensorRegistered,
                   loops>>

\* collectionScope.cancel() ends every tick loop; stopSensorCollection();
\* clearCollectedData().  isCollecting is left as it is.
cleanup ==
    /\ lastOp' = "cleanup"
    /\ lastError' = "none"
    /\ callbacks' = 0
    /\ caught' = FALSE
    /\ scopeActive' = FALSE
    /\ loops' = <<>>
    /\ sensorRegistered' = FALSE
    /\ clearCollectedData
    /\ UNCHANGED <<now, consent, isCollecting, sessionId, sessionStartTime, eventSeq>>

\* The user grants or withdraws consent (PrivacyManager).
setUserConsent(granted) ==
    /\ lastOp' = "setUserConsent"
    /\ lastError' = "none"
    /\ callbacks' = 0
    /\ caught' = FALSE
    /\ consent # granted
    /\ consent' = granted
    /\ UNCHANGED <<now, isCollecting, sessionId, sessionStartTime, buffers,
                   sensorRegistered, loops, eventSeq>>

\* The clock moves on by one collection interval, once every tick loop whose
\* delay is over has had its turn.
advanceClock ==
    /\ lastOp' = "advanceClock"
    /\ lastError' = "none"
    /\ callbacks' = 0
    /\ caught' = FALSE
    /\ now < MaxTime
    /\ \A i \in 1..Len(loops) : loops[i] > now
    /\ now' = now + COLLECTION_INTERVAL_MS
    /\ UNCHANGED <<consent, isCollecting, sessionId, sessionStartTime, buffers,
                   sensorRegistered, loops, eventSeq>>

(***************************************************************************)
(* The response engines.  A response is a record; the optional expiresAt   *)
(* is a set, empty when the field is absent.  The message texts are left   *)
(* out.                                                                    *)
(***************************************************************************)
AnomalyTags ==
    {"typing_anomaly", "touch_anomaly", "orientation_anomaly",
     "navigation_anomaly", "device_anomaly", "location_anomaly"}

Response(type, severity, requiresUserAction, expiresAt) ==
    [type |-> type, severity |-> severity,
     requiresUserAction |-> requiresUserAction, expiresAt |-> expiresAt]

\* null
NoResponse == Response("null", "none", FALSE, {})
\* not determined yet
Pending == Response("pending", "none", FALSE, {})

selectAuthenticationMethod(anomalyFlags) ==
    IF "device_anomaly" \in anomalyFlags \/ "location_anomaly" \in anomalyFlags
    THEN "silent_faceid"
    ELSE IF "typing_anomaly" \in anomalyFlags \/ "navigation_anomaly" \in anomalyFlags
    THEN "otp_challenge"
    ELSE "silent_faceid"

\* Mutant of determineSecurityResponse: the critical threshold is compared
\* with > instead of >=.
determineSecurityResponseStrict(riskScore, anomalyFlags, t) ==
    IF riskScore < RISK_LOW THEN NoResponse
    ELSE IF riskScore > RISK_CRITICAL
    THEN Response("account_lock", "critical", TRUE, {})
    ELSE IF riskScore >= RISK_HIGH
    THEN Response("session_termination", "high", TRUE, {})
    ELSE IF riskScore >= RISK_MEDIUM
    THEN Response(selectAuthenticationMethod(anomalyFlags), "medium", TRUE,
                  {t + STEP_UP_EXPIRY_MS})
    ELSE Response("silent_faceid", "low", FALSE, {})

\* Mutant of determineSecurityResponse: the medium tier is tested before the
\* high tier, so every score from 0.6 up to 0.95 gets the step-up challenge.
determineSecurityResponseMediumFirst(riskScore, anomalyFlags, t) ==
    IF riskScore < RISK_LOW THEN NoResponse
    ELSE IF riskScore >= RISK_CRITICAL
    THEN Response("account_lock", "critical", TRUE, {})
    ELSE IF riskScore >= RISK_MEDIUM
    THEN Response(selectAuthenticationMethod(anomalyFlags), "medium", TRUE,
                  {t + STEP_UP_EXPIRY_MS})
    ELSE IF riskScore >= RISK_HIGH
    THEN Response("session_termination", "high", TRUE, {})
    ELSE Response("silent_faceid", "low", FALSE, {})

\* FraudDetectionService.determineSecurityResponse
determineSecurityResponse(riskScore, anomalyFlags, t) ==
    IF riskScore < RISK_LOW THEN NoResponse
    ELSE IF riskScore >= RISK_CRITICAL
    THEN Response("account_lock", "critical", TRUE, {})
    ELSE IF riskScore >= RISK_HIGH
    THEN Response("session_termination", "high", TRUE, {})
    ELSE IF riskScore >= RISK_MEDIUM
    THEN Response(selectAuthenticationMethod(anomalyFlags), "medium", TRUE,
                  {t + STEP_UP_EXPIRY_MS})
    ELSE Response("silent_faceid", "low", FALSE, {})

\* MainActivity.determineSecurityResponse: the metrics carry no anomaly
\* flags and the response no expiry
deviceDetermineSecurityResponse(riskScore) ==
    IF riskScore >= RISK_CRITICAL THEN Response("account_lock", "critical", TRUE, {})
    ELSE IF riskScore >= RISK_HIGH THEN Response("session_termination", "high", TRUE, {})
    ELSE IF riskScore >= RISK_MEDIUM THEN Response("otp_challenge", "medium", TRUE, {})
    ELSE IF riskScore >= RISK_LOW THEN Response("silent_faceid", "low", FALSE, {})
    ELSE NoResponse

engineVars == <<dateNow, inRisk, inFlags, serverResponse, deviceResponse>>

evaluateOnServer ==
    /\ serverResponse = Pending
    /\ serverResponse' = determineSecurityResponse(inRisk, inFlags, dateNow)
    /\ UNCHANGED <<dateNow, inRisk, inFlags, deviceResponse>>

evaluateOnDevice ==
    /\ deviceResponse = Pending
    /\ deviceResponse' = deviceDetermineSecurityResponse(inRisk)
    /\ UNCHANGED <<dateNow, inRisk, inFlags, serverResponse>>

(***************************************************************************)
(* The server pipeline: FraudDetectionService.processBehavioralMetrics.    *)
(***************************************************************************)
Metrics(userId, session, timestamp, riskScore, anomalyFlags, confidenceLevel) ==
    [userId |-> userId, sessionId |-> session, timestamp |-> timestamp,
     riskScore |-> riskScore, anomalyFlags |-> anomalyFlags,
     confidenceLevel |-> confidenceLevel]

NoMetrics == Metrics("", "", 0, 0, {}, 0)

validateMetrics(m) ==
    IF m.userId = "" \/ m.sessionId = "" \/ m.timestamp = 0 THEN FALSE
    ELSE IF m.riskScore < 0 \/ m.riskScore > MAX_RISK THEN FALSE
    ELSE IF m.confidenceLevel < 0 \/ m.confidenceLevel > MAX_RISK THEN FALSE
    ELSE TRUE

\* What the call did: result is "returned", "threw" or "blocked" (an await
\* that never completes; response is then what was determined); stored: the row of
\* behavioral_analytics was inserted; ragQueried: ragService.queryFraudPatterns
\* was called; analysisStored: the row of fraud_analysis was inserted;
\* alertStored: alertService.createAlert returned; alertEmitted: io.emit ran.
Effects(result, response, stored, ragQueried, analysisStored, alertStored, alertEmitted) ==
    [result |-> result, response |-> response, stored |-> stored,
     ragQueried |-> ragQueried, analysisStored |-> analysisStored,
     alertStored |-> alertStored, alertEmitted |-> alertEmitted]

NoEffects == Effects("idle", Pending, FALSE, FALSE, FALSE, FALSE, FALSE)

\* ragService.queryFraudPatterns throws, finds nothing, or finds patterns
\* that storeFraudAnalysis then stores or fails to store; or its awaits on
\* the embedding service and the vector database (no timeout) never complete
RagOutcomes == {"queryThrows", "noPatterns", "stored", "storeFails", "neverReturns"}

\* Mutant of processBehavioralMetrics: the record is stored before it is
\* validated.
processBehavioralMetricsStoreFirst(m, insertFails, ragOutcome, createAlertFails) ==
    IF insertFails          \* storeAnonymizedMetrics rethrows
    THEN Effects("threw", Pending, FALSE, FALSE, FALSE, FALSE, FALSE)
    ELSE IF ~validateMetrics(m)
    THEN Effects("threw", Pending, TRUE, FALSE, FALSE, FALSE, FALSE)
    ELSE IF FALSE          \* storeAnonymizedMetrics rethrows
    THEN Effects("threw", Pending, FALSE, FALSE, FALSE, FALSE, FALSE)
    ELSE LET response == determineSecurityResponse(m.riskScore, m.anomalyFlags, dateNow)
             rag == m.riskScore > RISK_MEDIUM
             alert == response # NoResponse
         IN  IF rag /\ ragOutcome = "neverReturns"
             \* await this.analyzeWithRAG(metrics) does not complete
             THEN Effects("blocked", response, TRUE, TRUE, FALSE, FALSE, FALSE)
             ELSE Effects("returned", response, TRUE,
                          rag, rag /\ ragOutcome = "stored",
                          alert /\ ~createAlertFails, alert /\ ~createAlertFails)

processBehavioralMetrics(m, insertFails, ragOutcome, createAlertFails) ==
    IF ~validateMetrics(m)
    THEN Effects("threw", Pending, FALSE, FALSE, FALSE, FALSE, FALSE)
    ELSE IF insertFails          \* storeAnonymizedMetrics rethrows
    THEN Effects("threw", Pending, FALSE, FALSE, FALSE, FALSE, FALSE)
    ELSE LET response == determineSecurityResponse(m.riskScore, m.anomalyFlags, dateNow)
             rag == m.riskScore > RISK_MEDIUM
             alert == response # NoResponse
         IN  IF rag /\ ragOutcome = "neverReturns"
             \* await this.analyzeWithRAG(metrics) does not complete
             THEN Effects("blocked", response, TRUE, TRUE, FALSE, FALSE, FALSE)
             ELSE Effects("returned", response, TRUE,
                          rag, rag /\ ragOutcome = "stored",
                          alert /\ ~createAlertFails, alert /\ ~createAlertFails)

IsTerminal(response) == response.type \in {"session_termination", "account_lock"}

SessionIds == {"s1", "s2"}
ServerRisks ==
    {0, RISK_LOW - 1, RISK_LOW, RISK_MEDIUM - 1, RISK_MEDIUM, RISK_MEDIUM + 1,
     RISK_HIGH - 1, RISK_HIGH, RISK_CRITICAL - 1, RISK_CRITICAL, MAX_RISK}
ServerFlags == {{}, {"typing_anomaly"}, {"device_anomaly", "typing_anomaly"}}
ValidInputs ==
    {Metrics("u1", s, 1000, r, f, c) :
        s \in SessionIds, r \in ServerRisks, f \in ServerFlags, c \in {MAX_RISK}}
\* one field of a valid record missing or out of range
InvalidInputs ==
    UNION {{[m EXCEPT !.userId = ""], [m EXCEPT !.sessionId = ""],
            [m EXCEPT !.timestamp = 0],
            [m EXCEPT !.riskScore = 0 - 1], [m EXCEPT !.riskScore = MAX_RISK + 1],
            [m EXCEPT !.confidenceLevel = 0 - 1],
            [m EXCEPT !.confidenceLevel = MAX_RISK + 1]} :
           m \in {Metrics("u1", "s1", 1000, r, {"typing_anomaly"}, MAX_RISK) :
                     r \in {0, RISK_MEDIUM + 1, RISK_CRITICAL}}}
ServerInputs == ValidInputs \cup InvalidInputs

serverVars == <<metrics, srv, terminalSessions>>

receiveMetrics ==
    \E m \in ServerInputs, insertFails \in BOOLEAN, ragOutcome \in RagOutcomes,
       createAlertFails \in BOOLEAN :
        /\ metrics' = m
        /\ srv' = processBehavioralMetrics(m, insertFails, ragOutcome, createAlertFails)
        /\ terminalSessions' =
              IF srv'.result = "returned" /\ IsTerminal(srv'.response)
              THEN terminalSessions \cup {m.sessionId} ELSE terminalSessions
        /\ UNCHANGED dateNow

(***************************************************************************)
(* What the server writes: the row of behavioral_analytics and the alert,  *)
(* as functions of the whole metrics record, feature vectors included.     *)
(***************************************************************************)
UserIds == {"u1", "u2"}

\* crypto.createHash('sha256').update(userId).digest('hex').substring(0, 16)
hashUserId(userId) ==
    CASE userId = "u1" -> "bb82030dbc2bcaba"
      [] userId = "u2" -> "6ca202c88e549dff"
      [] OTHER -> "e3b0c44298fc1c14"

\* new Date(ms).toISOString()
toISOString(ms) == <<"ISO-8601", ms>>

FeatureFields ==
    {"typingRhythm", "touchDynamics", "deviceOrientation", "navigationPattern"}

\* a BehavioralMetrics record with all its fields
FullMetrics(m, features) ==
    [userId |-> m.userId, sessionId |-> m.sessionId, timestamp |-> m.timestamp,
     typingRhythm |-> features.typingRhythm,
     touchDynamics |-> features.touchDynamics,
     deviceOrientation |-> features.deviceOrientation,
     navigationPattern |-> features.navigationPattern,
     riskScore |-> m.riskScore, anomalyFlags |-> m.anomalyFlags,
     confidenceLevel |-> m.confidenceLevel,
     deviceFingerprint |-> "fp", timeOfDay |-> 9, dayOfWeek |-> 1]

\* Mutant of storeAnonymizedMetrics: the typing feature vector is stored too.
storeAnonymizedMetricsWithFeatures(m) ==
    [session_id |-> m.sessionId, user_hash |-> hashUserId(m.userId),
     timestamp |-> toISOString(m.timestamp), risk_score |-> m.riskScore,
     anomaly_flags |-> m.anomalyFlags, confidence_level |-> m.confidenceLevel,
     device_fingerprint |-> m.deviceFingerprint, time_of_day |-> m.timeOfDay,
     day_of_week |-> m.dayOfWeek, typing_rhythm |-> m.typingRhythm]

\* the row inserted into behavioral_analytics
storeAnonymizedMetrics(m) ==
    [session_id |-> m.sessionId, user_hash |-> hashUserId(m.userId),
     timestamp |-> toISOString(m.timestamp), risk_score |-> m.riskScore,
     anomaly_flags |-> m.anomalyFlags, confidence_level |-> m.confidenceLevel,
     device_fingerprint |-> m.deviceFingerprint, time_of_day |-> m.timeOfDay,
     day_of_week |-> m.dayOfWeek]

\* the alert stored and emitted as 'fraud_alert'
sendRealTimeAlert(m, response, t) ==
    [id |-> <<"alert_", t>>, sessionId |-> m.sessionId,
     userHash |-> hashUserId(m.userId), riskScore |-> m.riskScore,
     severity |-> response.severity, responseType |-> response.type,
     timestamp |-> toISOString(t), anomalyFlags |-> m.anomalyFlags]

\* the rows and the alerts one call writes when no downstream call fails
RowsWritten(m) ==
    IF processBehavioralMetrics(m, FALSE, "noPatterns", FALSE).stored
    THEN <<storeAnonymizedMetrics(m)>> ELSE <<>>

AlertsEmitted(m) ==
    LET effects == processBehavioralMetrics(m, FALSE, "noPatterns", FALSE)
    IN  IF effects.alertEmitted
        THEN <<sendRealTimeAlert(m, effects.response, dateNow)>> ELSE <<>>

\* feature vectors on the wire: each is all zero or not
FeatureBundles ==
    {[typingRhythm |-> <<a>>, touchDynamics |-> <<b>>,
      deviceOrientation |-> <<c>>, navigationPattern |-> <<d>>] :
        a \in {0, 1}, b \in {0, 1}, c \in {0, 1}, d \in {0, 1}}

PairInputs ==
    {Metrics(u, "s1", 1000, r, f, MAX_RISK) :
        u \in UserIds, r \in {0, RISK_LOW, RISK_MEDIUM, RISK_HIGH, RISK_CRITICAL},
        f \in {{}, {"typing_anomaly"}}}

Pair(a, b, done, rowsA, rowsB, alertsA, alertsB) ==
    [a |-> a, b |-> b, done |-> done, rowsA |-> rowsA, rowsB |-> rowsB,
     alertsA |-> alertsA, alertsB |-> alertsB]

PairIdle ==
    LET none == FullMetrics(NoMetrics, CHOOSE x \in FeatureBundles : TRUE)
    IN  Pair(none, none, FALSE, <<>>, <<>>, <<>>, <<>>)

pairVars == <<pair>>

\* processBehavioralMetrics on each of the two records
processPair ==
    /\ ~pair.done
    /\ pair' = [pair EXCEPT !.done = TRUE,
                            !.rowsA = RowsWritten(pair.a),
                            !.rowsB = RowsWritten(pair.b),
                            !.alertsA = AlertsEmitted(pair.a),
                            !.alertsB = AlertsEmitted(pair.b)]

(***************************************************************************)
(* The on-device pipeline: MainActivity.processBehavioralMetrics, the data *)
(* callback of the collector.                                              *)
(***************************************************************************)
\* result: "completed", or "caught" when the try block threw; predicted:
\* fraudDetectionModel.predict returned; currentRiskScore: the UI state;
\* response: what determineSecurityResponse returned (Pending: not called);
\* executed: securityHandler.executeResponse was called; exported:
\* sendAnonymizedMetrics was called.
DeviceEffects(result, predicted, currentRiskScore, response, executed, exported) ==
    [result |-> result, predicted |-> predicted,
     currentRiskScore |-> currentRiskScore, response |-> response,
     executed |-> executed, exported |-> exported]

DeviceIdle == DeviceEffects("idle", FALSE, 0, Pending, FALSE, FALSE)

\* the scores predict returns in the model
DeviceRisks ==
    {r \in 0..MAX_RISK : r % 100 = 0}
    \cup {RISK_LOW - 1, RISK_MEDIUM - 1, RISK_HIGH - 1, RISK_CRITICAL - 1}

deviceProcessBehavioralMetrics(predictThrows, riskScore, executeThrows) ==
    IF predictThrows
    THEN DeviceEffects("caught", FALSE, dev.currentRiskScore, Pending, FALSE, FALSE)
    ELSE LET response == deviceDetermineSecurityResponse(riskScore)
         IN  IF response # NoResponse /\ executeThrows
             THEN DeviceEffects("caught", TRUE, riskScore, response, TRUE, FALSE)
             ELSE DeviceEffects("completed", TRUE, riskScore, response,
                                response # NoResponse, TRUE)

deviceVars == <<dev>>

\* dataCallback { metrics -> processBehavioralMetrics(metrics) }
deviceReceiveMetrics ==
    \E predictThrows \in BOOLEAN, riskScore \in DeviceRisks, executeThrows \in BOOLEAN :
        dev' = deviceProcessBehavioralMetrics(predictThrows, riskScore, executeThrows)

(***************************************************************************)
(* Feature extraction: the four extract functions of the collector and     *)
(* their helpers, on a snapshot (the toList copy of a buffer).  A Float is *)
(* an integer here, a quotient is truncated, and NotFinite stands for the  *)
(* Infinity and NaN a division by zero produces.  An event carries the     *)
(* fields the extractors read.                                             *)
(***************************************************************************)
\* snapshots hold at most this many events
MaxSnapshot == 3

\* Float.POSITIVE_INFINITY, Float.NaN
NotFinite == 0 - 1

\* Sensor.TYPE_ACCELEROMETER, Sensor.TYPE_GYROSCOPE
TYPE_ACCELEROMETER == 1
TYPE_GYROSCOPE == 4

\* FloatArray(n) { 0f }
FloatArray(n) == [i \in 1..n |-> 0]

RECURSIVE sum(_)
sum(s) == IF s = <<>> THEN 0 ELSE Head(s) + sum(Tail(s))

\* Iterable<Float>.average(): NaN on an empty list
average(s) ==
    IF s = <<>> THEN NotFinite
    ELSE IF \E i \in 1..Len(s) : s[i] = NotFinite THEN NotFinite
    ELSE sum(s) \div Len(s)

sqrt(x) == CHOOSE r \in 0..x : r * r <= x /\ (r + 1) * (r + 1) > x

abs(x) == IF x < 0 THEN 0 - x ELSE x

\* List<T>.zipWithNext: the pairs of neighbours
zipWithNext(s) == [i \in 1..(Len(s) - 1) |-> <<s[i], s[i + 1]>>]

\* List<T>.map on one field
Column(s, field) == [i \in 1..Len(s) |-> s[i][field]]

Variance(s) ==
    LET mean == average(s)
    IN  average([i \in 1..Len(s) |-> (s[i] - mean) * (s[i] - mean)])

standardDeviation(s) == sqrt(Variance(s))

\* -p * ln(p) for p = count / total, in thousandths
PLnP(count, total) ==
    IF count = total THEN 0
    ELSE CASE <<count, total>> = <<1, 2>> -> 347
           [] <<count, total>> = <<1, 3>> -> 366
           [] <<count, total>> = <<2, 3>> -> 270
           [] <<count, total>> = <<1, 4>> -> 347
           [] <<count, total>> = <<2, 4>> -> 347
           [] <<count, total>> = <<3, 4>> -> 216
           [] <<count, total>> = <<1, 5>> -> 322
           [] <<count, total>> = <<2, 5>> -> 367
           [] <<count, total>> = <<3, 5>> -> 306
           [] <<count, total>> = <<4, 5>> -> 179

RECURSIVE SumOver(_, _)
SumOver(S, f) ==
    IF S = {} THEN 0
    ELSE LET x == CHOOSE y \in S : TRUE IN f[x] + SumOver(S \ {x}, f)

calculateEntropy(values) ==
    IF values = <<>> THEN 0
    ELSE LET keys == {values[i] * 10 : i \in 1..Len(values)}
             histogram == [k \in keys |->
                             Cardinality({i \in 1..Len(values) : values[i] * 10 = k})]
         IN  SumOver(keys, [k \in keys |-> PLnP(histogram[k], Len(values))])

Interval(a, b) == b.timestamp - a.timestamp

\* events.zipWithNext { a, b -> b.timestamp - a.timestamp }
Intervals(events) ==
    LET pairs == zipWithNext(events)
    IN  [i \in 1..Len(pairs) |-> Interval(pairs[i][1], pairs[i][2])]

\* 1000f / interval: Infinity when the two timestamps are equal
Rate(interval) == IF interval = 0 THEN NotFinite ELSE 1000 \div interval

calculateTypingSpeed(events) ==
    IF Len(events) < 2 THEN 0
    ELSE LET totalTime == events[Len(events)].timestamp - events[1].timestamp
         IN  IF totalTime > 0 THEN (Len(events) * 1000) \div totalTime ELSE 0

calculateTypingConsistency(events) ==
    IF events = <<>> THEN 0
    ELSE LET dwellTimes == Column(events, "dwellTime")
             mean == average(dwellTimes)
         IN  IF mean > 0 THEN Variance(dwellTimes) \div mean ELSE 0

calculatePressureVariation(events) ==
    IF events = <<>> THEN 0 ELSE standardDeviation(Column(events, "pressure"))

calculateRhythmEntropy(events) ==
    IF Len(events) < 2 THEN 0 ELSE calculateEntropy(Intervals(events))

\* a difference with an infinite speed in it is infinite or NaN
SpeedChange(a, b) ==
    IF a = NotFinite \/ b = NotFinite THEN NotFinite ELSE abs(b - a)

\* speeds.zipWithNext { a, b -> abs(b - a) }
SpeedChanges(speeds) ==
    LET pairs == zipWithNext(speeds)
    IN  [i \in 1..Len(pairs) |-> SpeedChange(pairs[i][1], pairs[i][2])]

calculateTypingAcceleration(events) ==
    IF Len(events) < 3 THEN 0
    ELSE LET intervals == Intervals(events)
             speeds == [i \in 1..Len(intervals) |-> Rate(intervals[i])]
         IN  average(SpeedChanges(speeds))

Velocity(a, b) ==
    LET dx == b.x - a.x
        dy == b.y - a.y
        dt == b.timestamp - a.timestamp
    IN  IF dt > 0 THEN sqrt(dx * dx + dy * dy) \div dt ELSE 0

\* events.zipWithNext { a, b -> .. velocity .. }
Velocities(events) ==
    LET pairs == zipWithNext(events)
    IN  [i \in 1..Len(pairs) |-> Velocity(pairs[i][1], pairs[i][2])]

calculateTouchVelocity(events) ==
    IF Len(events) < 2 THEN 0 ELSE average(Velocities(events))

calculateTouchAcceleration(events) ==
    IF Len(events) < 3 THEN 0
    ELSE average(SpeedChanges(Velocities(events)))

calculateTouchPattern(events) ==
    IF events = <<>> THEN 0 ELSE standardDeviation(Column(events, "pressure"))

Magnitudes(data) ==
    [i \in 1..Len(data) |->
        sqrt(data[i].values[1] * data[i].values[1]
             + data[i].values[2] * data[i].values[2]
             + data[i].values[3] * data[i].values[3])]

calculateMovementMagnitude(data) ==
    IF data = <<>> THEN 0 ELSE average(Magnitudes(data))

calculateOrientationStability(data) ==
    IF data = <<>> THEN 0 ELSE standardDeviation(Magnitudes(data))

\* String.hashCode()
hashCode(screenName) ==
    CASE screenName = "home" -> 3208415
      [] screenName = "pay" -> 110760

calculateNavigationEntropy(events) ==
    calculateEntropy([i \in 1..Len(events) |-> hashCode(events[i].screenName)])

calculateNavigationSpeed(events) ==
    IF Len(events) < 2 THEN 0
    ELSE LET intervals == Intervals(events)
         IN  average([i \in 1..Len(intervals) |-> Rate(intervals[i])])

extractTypingRhythm(events) ==
    IF events = <<>> THEN FloatArray(10)
    ELSE LET dwellTimes == Column(events, "dwellTime")
             flightTimes == Column(events, "flightTime")
         IN  <<average(dwellTimes), standardDeviation(dwellTimes),
               average(flightTimes), standardDeviation(flightTimes),
               Len(events), calculateTypingSpeed(events),
               calculateTypingConsistency(events),
               calculatePressureVariation(events),
               calculateRhythmEntropy(events),
               calculateTypingAcceleration(events)>>

extractTouchDynamics(events) ==
    IF events = <<>> THEN FloatArray(10)
    ELSE LET pressures == Column(events, "pressure")
             sizes == Column(events, "size")
             durations == Column(events, "duration")
         IN  <<average(pressures), standardDeviation(pressures),
               average(sizes), standardDeviation(sizes),
               average(durations), standardDeviation(durations),
               calculateTouchVelocity(events),
               calculateTouchAcceleration(events),
               calculateTouchPattern(events), Len(events)>>

\* the variant that reads every sample, whatever its sensor
extractDeviceOrientationUnfiltered(samples) ==
    LET data == samples
    IN  IF data = <<>> THEN FloatArray(8)
        ELSE LET xValues == [i \in 1..Len(data) |-> data[i].values[1]]
                 yValues == [i \in 1..Len(data) |-> data[i].values[2]]
                 zValues == [i \in 1..Len(data) |-> data[i].values[3]]
             IN  <<average(xValues), standardDeviation(xValues),
                   average(yValues), standardDeviation(yValues),
                   average(zValues), standardDeviation(zValues),
                   calculateMovementMagnitude(data),
                   calculateOrientationStability(data)>>

extractDeviceOrientation(samples) ==
    LET data == SelectSeq(samples, LAMBDA s : s.sensorType = TYPE_ACCELEROMETER)
    IN  IF data = <<>> THEN FloatArray(8)
        ELSE LET xValues == [i \in 1..Len(data) |-> data[i].values[1]]
                 yValues == [i \in 1..Len(data) |-> data[i].values[2]]
                 zValues == [i \in 1..Len(data) |-> data[i].values[3]]
             IN  <<average(xValues), standardDeviation(xValues),
                   average(yValues), standardDeviation(yValues),
                   average(zValues), standardDeviation(zValues),
                   calculateMovementMagnitude(data),
                   calculateOrientationStability(data)>>

extractNavigationPattern(events) ==
    IF events = <<>> THEN FloatArray(6)
    ELSE LET durations == Column(events, "duration")
             uniqueScreens == Cardinality({events[i].screenName : i \in 1..Len(events)})
         IN  <<Len(events), uniqueScreens, average(durations),
               standardDeviation(durations),
               calculateNavigationEntropy(events),
               calculateNavigationSpeed(events)>>

\* The events a snapshot is made of
TypingEventValues ==
    [timestamp : {0, 100}, dwellTime : {80, 90}, flightTime : {120}, pressure : {5}]

TouchEventValues ==
    [timestamp : {0, 100}, x : {0, 300}, y : {0, 400}, pressure : {5}, size : {2},
     duration : {50}]

SensorDataValues ==
    [sensorType : {TYPE_ACCELEROMETER, TYPE_GYROSCOPE},
     values : {<<0, 0, 10>>, <<3, 4, 0>>}]

NavigationEventValues ==
    [timestamp : {0, 100}, screenName : {"home", "pay"}, duration : {10}]

\* the sequences of at most MaxSnapshot events
SequencesOf(E) == UNION {[1..n -> E] : n \in 0..MaxSnapshot}

\* events enter a buffer in the order of their timestamps
InTimeOrder(s) == \A i \in 1..(Len(s) - 1) : s[i].timestamp <= s[i + 1].timestamp

Categories == {"typing", "touch", "orientation", "navigation"}

Snapshots(category) ==
    CASE category = "typing" -> {s \in SequencesOf(TypingEventValues) : InTimeOrder(s)}
      [] category = "touch" -> {s \in SequencesOf(TouchEventValues) : InTimeOrder(s)}
      [] category = "orientation" -> SequencesOf(SensorDataValues)
      [] category = "navigation" ->
            {s \in SequencesOf(NavigationEventValues) : InTimeOrder(s)}

\* the extractor of a category, on a snapshot
Extract(category, snapshot) ==
    CASE category = "typing" -> extractTypingRhythm(snapshot)
      [] category = "touch" -> extractTouchDynamics(snapshot)
      [] category = "orientation" -> extractDeviceOrientation(snapshot)
      [] category = "navigation" -> extractNavigationPattern(snapshot)

featureVars == <<feat>>

FeatureIdle == [category |-> "typing", snapshot |-> <<>>, done |-> FALSE, vector |-> <<>>]

\* one extract call of processCollectedData
extractFeatures ==
    /\ ~feat.done
    /\ feat' = [feat EXCEPT !.done = TRUE,
                            !.vector = Extract(feat.category, feat.snapshot)]

(***************************************************************************)
(* The activity: MainActivity starts and stops the collector and processes *)
(* the metrics its data callback receives.  The callback only launches a   *)
(* coroutine on lifecycleScope (Dispatchers.Main.immediate); a coroutine   *)
(* launched from inside a running one, or from the tick's worker thread,   *)
(* is queued and runs on the main thread after the code that launched it.  *)
(***************************************************************************)
\* processing coroutines launched and not yet run
MaxPending == 2

\* isCollectingBiometrics and securityStatus: the UI state (currentRiskScore
\* is dev.currentRiskScore); pending: the launched processing coroutines that
\* have not run; stopped: history, stopBiometricCollection has completed and
\* no start has followed
Activity(isCollectingBiometrics, securityStatus, pending, stopped) ==
    [isCollectingBiometrics |-> isCollectingBiometrics,
     securityStatus |-> securityStatus, pending |-> pending, stopped |-> stopped]

ActivityIdle == Activity(FALSE, "Secure", 0, FALSE)

activityVars == <<activity>>

updateSecurityStatus(response) ==
    CASE response.severity = "critical" -> "Critical Alert"
      [] response.severity = "high" -> "High Risk"
      [] response.severity = "medium" -> "Medium Risk"
      [] response.severity = "low" -> "Low Risk"

\* dataCallback { metrics -> processBehavioralMetrics(metrics) }: the
\* coroutines the collector's last operation has launched
Launched(invocations, threw) == IF threw THEN 0 ELSE invocations

startBiometricCollection ==
    IF ~consent
    THEN UNCHANGED <<collectorVars, activity, dev>>     \* showPrivacyConsentDialog()
    ELSE /\ startCollection
         /\ activity' = IF lastError' = "none"
                         THEN [activity EXCEPT !.isCollectingBiometrics = TRUE,
                                               !.securityStatus = "Monitoring",
                                               !.stopped = FALSE]
                         ELSE activity
         /\ UNCHANGED dev

stopBiometricCollection ==
    /\ activity.pending < MaxPending
    /\ stopCollection
    /\ activity' = Activity(FALSE, "Inactive",
                            activity.pending + Launched(callbacks', caught'), TRUE)
    /\ dev' = [dev EXCEPT !.currentRiskScore = 0]

\* a periodic tick of the collector, with the activity's callback set
activityPeriodicTick ==
    /\ activity.pending < MaxPending
    /\ periodicTick
    /\ activity' = [activity EXCEPT !.pending = @ + Launched(callbacks', caught')]
    /\ UNCHANGED dev

\* the scores predict returns in the activity
ActivityRisks == {0, RISK_LOW, RISK_MEDIUM, RISK_HIGH, RISK_CRITICAL}

\* the body of lifecycleScope.launch { .. } in processBehavioralMetrics
processingCoroutine ==
    /\ activity.pending > 0
    /\ \E predictThrows \in BOOLEAN, riskScore \in ActivityRisks, executeThrows \in BOOLEAN :
          dev' = deviceProcessBehavioralMetrics(predictThrows, riskScore, executeThrows)
    /\ activity' = [activity EXCEPT
          !.pending = @ - 1,
          !.securityStatus = IF dev'.result = "completed" /\ dev'.response # NoResponse
                             THEN updateSecurityStatus(dev'.response) ELSE @]
    /\ UNCHANGED collectorVars

(***************************************************************************)
(* The collector under concurrency.  The buffers are                       *)
(* Collections.synchronizedList(ArrayList): each call of size, add,        *)
(* removeAt, get, set, clear or toList is atomic, a sequence of calls is   *)
(* not, and an iterator is not synchronized at all.  Ingestion callbacks   *)
(* arrive on the threads of Callers; the tick loop runs on                 *)
(* Dispatchers.Default.  A step below is one or more consecutive calls of  *)
(* one thread; start and stop are single steps.                            *)
(***************************************************************************)
Callers == {"c1", "c2"}
\* the thread the SensorManager delivers onSensorChanged on
SensorThread == "c1"

NoEvent == [timestamp |-> 0, seq |-> 0]
IdleCall == [pc |-> "idle", event |-> NoEvent]

\* pc: where the coroutine is; cursor, comod: ArrayList.Itr's cursor and
\* whether modCount has moved since the iterator was made; snapshot: the
\* elements the iteration has yielded; cutoffTime, readIndex, writeIndex,
\* lastIndex, removeIndex: the locals of removeAll (positions count from 1);
\* error: the exception the last tick caught; lostFresh: the last purge
\* removed an event that is not older than the cutoff.
IdleTick ==
    [pc |-> "idle", cursor |-> 0, comod |-> FALSE, snapshot |-> <<>>,
     cutoffTime |-> 0, readIndex |-> 0, writeIndex |-> 0, lastIndex |-> 0,
     removeIndex |-> 0, error |-> "none", lostFresh |-> FALSE]

threadVars == <<calls, tick, sessionFirstSeq>>

\* what a step of an ingestion call or of the tick leaves alone
threadFrame ==
    <<now, consent, isCollecting, sessionId, sessionStartTime, typingEvents,
      navigationEvents, sensorRegistered, callbacks, caught, lastOp, lastError,
      sessionFirstSeq>>

\* a structural modification of sensorData moves its modCount
Comodified(t) == IF t.pc = "iterate" THEN [t EXCEPT !.comod = TRUE] ELSE t

\* the sequence without its i-th element
RemoveAt(buf, i) == SubSeq(buf, 1, i - 1) \o SubSeq(buf, i + 1, Len(buf))

\* onTouchEvent up to the size test: the guard, the TouchEvent, and the
\* branch taken on touchEvents.size
touchEnter(c) ==
    /\ calls[c].pc = "idle"
    /\ IF ~isCollecting \/ ~consent
       THEN UNCHANGED <<calls, eventSeq>>
       ELSE /\ eventSeq < MaxEvents
            /\ calls' = [calls EXCEPT ![c] =
                  [pc |-> IF Len(touchEvents) < MAX_TOUCH_EVENTS
                          THEN "touchAdd" ELSE "touchEvict",
                   event |-> NewEvent]]
            /\ eventSeq' = eventSeq + 1
    /\ UNCHANGED <<threadFrame, touchEvents, sensorData, loops, tick>>

\* touchEvents.removeAt(0); on an empty list it throws, the handler catches
\* and the event is not added
touchEvict(c) ==
    /\ calls[c].pc = "touchEvict"
    /\ IF touchEvents = <<>>
       THEN /\ calls' = [calls EXCEPT ![c] = IdleCall]
            /\ UNCHANGED touchEvents
       ELSE /\ touchEvents' = Tail(touchEvents)
            /\ calls' = [calls EXCEPT ![c].pc = "touchAdd"]
    /\ UNCHANGED <<threadFrame, sensorData, loops, tick, eventSeq>>

\* touchEvents.add(touchEvent)
touchAdd(c) ==
    /\ calls[c].pc = "touchAdd"
    /\ touchEvents' = Append(touchEvents, calls[c].event)
    /\ calls' = [calls EXCEPT ![c] = IdleCall]
    /\ UNCHANGED <<threadFrame, sensorData, loops, tick, eventSeq>>

\* onSensorChanged up to this.sensorData.add(sensorData)
sensorEnter(c) ==
    /\ calls[c].pc = "idle"
    /\ IF ~isCollecting
       THEN UNCHANGED <<calls, eventSeq, sensorData, tick>>
       ELSE /\ eventSeq < MaxEvents
            /\ sensorData' = Append(sensorData, NewEvent)
            /\ tick' = Comodified(tick)
            /\ calls' = [calls EXCEPT ![c] = [pc |-> "sensorTrim", event |-> NoEvent]]
            /\ eventSeq' = eventSeq + 1
    /\ UNCHANGED <<threadFrame, touchEvents, loops>>

\* if (this.sensorData.size > 1000) this.sensorData.removeAt(0)
sensorTrim(c) ==
    /\ calls[c].pc = "sensorTrim"
    /\ calls' = [calls EXCEPT ![c] = IdleCall]
    /\ IF Len(sensorData) > MAX_SENSOR_SAMPLES
       THEN /\ sensorData' = Tail(sensorData)
            /\ tick' = Comodified(tick)
       ELSE UNCHANGED <<sensorData, tick>>
    /\ UNCHANGED <<threadFrame, touchEvents, loops, eventSeq>>

\* The loop's delay is over and no tick is in progress: the loop ends if the
\* collector is not collecting; otherwise processCollectedData begins, the
\* extraction reaches sensorData.filter { .. } and makes its iterator.
tickWake ==
    /\ tick.pc = "idle"
    /\ \E i \in 1..Len(loops) :
          /\ loops[i] <= now
          /\ loops' = RemoveLoop(loops, i)
    /\ tick' = IF isCollecting THEN [IdleTick EXCEPT !.pc = "iterate"] ELSE tick
    /\ UNCHANGED <<threadFrame, touchEvents, sensorData, calls, eventSeq>>

\* One turn of the for loop of filter: hasNext() is cursor != size, next()
\* throws ConcurrentModificationException when modCount has moved.  The
\* exception is caught by processCollectedData, which returns.
tickIterate ==
    /\ tick.pc = "iterate"
    /\ tick' =
          IF tick.cursor = Len(sensorData) THEN [tick EXCEPT !.pc = "callback"]
          ELSE IF tick.comod
          THEN [tick EXCEPT !.pc = "done",
                            !.error = "ConcurrentModificationException"]
          ELSE IF tick.cursor > Len(sensorData)
          THEN [tick EXCEPT !.pc = "done", !.error = "NoSuchElementException"]
          ELSE [tick EXCEPT !.snapshot = Append(@, sensorData[tick.cursor + 1]),
                            !.cursor = @ + 1]
    /\ UNCHANGED <<threadFrame, touchEvents, sensorData, loops, calls, eventSeq>>

\* dataCallback?.invoke(metrics), then clearOldData as far as the first
\* reads of removeAll on sensorData: the cutoff, the purge of touchEvents and
\* typingEvents, and the range 0..lastIndex of the scan.
tickCallback ==
    /\ tick.pc = "callback"
    /\ LET cutoffTime == now - (COLLECTION_INTERVAL_MS * 2)
       IN  /\ touchEvents' = RemoveOlder(touchEvents, cutoffTime)
           /\ tick' = [tick EXCEPT !.pc = "scan", !.cutoffTime = cutoffTime,
                                   !.readIndex = 1, !.writeIndex = 0,
                                   !.lastIndex = Len(sensorData)]
    /\ UNCHANGED <<threadFrame, sensorData, loops, calls, eventSeq>>

\* removeAll { it.timestamp < cutoffTime } on a RandomAccess list, the scan:
\*   for (readIndex in 0..lastIndex) { val element = this[readIndex]
\*     if (predicate(element)) continue
\*     if (writeIndex != readIndex) this[writeIndex] = element; writeIndex++ }
\* and after the last turn: if (writeIndex < size) the trim from lastIndex.
tickPurgeScan ==
    /\ tick.pc = "scan"
    /\ IF tick.readIndex > tick.lastIndex
       THEN /\ tick' = IF tick.writeIndex < Len(sensorData)
                       THEN [tick EXCEPT !.pc = "trim",
                                         !.removeIndex = Len(sensorData)]
                       ELSE [tick EXCEPT !.pc = "done"]
            /\ UNCHANGED sensorData
       ELSE IF tick.readIndex > Len(sensorData)
       THEN /\ tick' = [tick EXCEPT !.pc = "done",
                                    !.error = "IndexOutOfBoundsException"]
            /\ UNCHANGED sensorData
       ELSE LET element == sensorData[tick.readIndex]
            IN  IF element.timestamp < tick.cutoffTime
                THEN /\ tick' = [tick EXCEPT !.readIndex = @ + 1]
                     /\ UNCHANGED sensorData
                ELSE /\ sensorData' =
                           [sensorData EXCEPT ![tick.writeIndex + 1] = element]
                     /\ tick' = [tick EXCEPT !.readIndex = @ + 1,
                                             !.writeIndex = @ + 1]
    /\ UNCHANGED <<threadFrame, touchEvents, loops, calls, eventSeq>>

\* for (removeIndex in lastIndex downTo writeIndex) removeAt(removeIndex)
tickPurgeTrim ==
    /\ tick.pc = "trim"
    /\ IF tick.removeIndex <= tick.writeIndex
       THEN /\ tick' = [tick EXCEPT !.pc = "done"]
            /\ UNCHANGED sensorData
       ELSE IF tick.removeIndex > Len(sensorData)
       THEN /\ tick' = [tick EXCEPT !.pc = "done",
                                    !.error = "IndexOutOfBoundsException"]
            /\ UNCHANGED sensorData
       ELSE LET removed == sensorData[tick.removeIndex]
                rest == RemoveAt(sensorData, tick.removeIndex)
                fresh == ~(removed.timestamp < tick.cutoffTime)
                gone == \A i \in 1..Len(rest) : rest[i] # removed
            IN  /\ sensorData' = rest
                /\ tick' = [tick EXCEPT !.removeIndex = @ - 1,
                                        !.lostFresh = @ \/ (fresh /\ gone)]
    /\ UNCHANGED <<threadFrame, touchEvents, loops, calls, eventSeq>>

\* processCollectedData has returned: while (isCollecting) { delay(..) .. }
tickDone ==
    /\ tick.pc = "done"
    /\ tick' = [tick EXCEPT !.pc = "idle"]
    /\ loops' = IF isCollecting
                THEN InsertLoop(loops, now + COLLECTION_INTERVAL_MS) ELSE loops
    /\ UNCHANGED <<threadFrame, touchEvents, sensorData, calls, eventSeq>>

\* startCollection and stopCollection called while ingestion calls and a tick
\* may be in progress; clear() moves sensorData's modCount.
threadsStart ==
    /\ startCollection
    /\ sessionFirstSeq' = IF isCollecting' /\ ~isCollecting
                          THEN eventSeq ELSE sessionFirstSeq
    /\ tick' = IF isCollecting' /\ ~isCollecting THEN Comodified(tick) ELSE tick
    /\ UNCHANGED calls

threadsStop ==
    /\ stopCollection
    /\ tick' = IF isCollecting THEN Comodified(tick) ELSE tick
    /\ UNCHANGED <<calls, sessionFirstSeq>>

threadsClock ==
    /\ advanceClock
    /\ UNCHANGED threadVars

(***************************************************************************)
(* Specifications.                                                         *)
(***************************************************************************)
vars ==
    <<collectorVars, engineVars, serverVars, threadVars, deviceVars, pairVars,
      featureVars, scopeVars, activityVars>>

CollectorInit ==
    /\ now = 0
    /\ isCollecting = FALSE
    /\ sessionId = 0
    /\ sessionStartTime = 0
    /\ touchEvents = <<>>
    /\ typingEvents = <<>>
    /\ sensorData = <<>>
    /\ navigationEvents = <<>>
    /\ sensorRegistered = FALSE
    /\ loops = <<>>
    /\ callbacks = 0
    /\ caught = FALSE
    /\ eventSeq = 0
    /\ lastOp = "init"
    /\ lastError = "none"

EngineIdle ==
    /\ dateNow = 0
    /\ inRisk = 0
    /\ inFlags = {}
    /\ serverResponse = Pending
    /\ deviceResponse = Pending

ServerInit ==
    /\ metrics = NoMetrics
    /\ srv = NoEffects
    /\ terminalSessions = {}

ThreadsIdle ==
    /\ calls = [c \in Callers |-> IdleCall]
    /\ tick = IdleTick
    /\ sessionFirstSeq = 0
    /\ dev = DeviceIdle

PairInit == pair = PairIdle

FeatureInit == feat = FeatureIdle

ScopeInit == scopeActive = TRUE

ActivityInit == activity = ActivityIdle

\* The collector
Init ==
    /\ CollectorInit
    /\ consent \in BOOLEAN
    /\ EngineIdle
    /\ ServerInit
    /\ ThreadsIdle
    /\ PairInit
    /\ FeatureInit
    /\ ScopeInit
    /\ ActivityInit

\* The collector's steps leave the engines' and the server's variables alone.
CollectorStep == UNCHANGED <<engineVars, serverVars, threadVars, deviceVars, pairVars, featureVars, scopeVars, activityVars>>

Next ==
    \/ startCollection /\ CollectorStep
    \/ stopCollection /\ CollectorStep
    \/ periodicTick /\ CollectorStep
    \/ onTouchEvent /\ CollectorStep
    \/ onTypingEvent /\ CollectorStep
    \/ onNavigationEvent /\ CollectorStep
    \/ \E eventIsNull \in BOOLEAN : onSensorChanged(eventIsNull) /\ CollectorStep
    \/ \E granted \in BOOLEAN : setUserConsent(granted) /\ CollectorStep
    \/ advanceClock /\ CollectorStep

Spec == Init /\ [][Next]_vars

\* The response engines on every input: every score with no flags, and the
\* scores around each threshold with every set of flags.
RiskGrid ==
    {r \in 0..MAX_RISK : r % 500 = 0}
    \cup {RISK_LOW - 1, RISK_LOW + 1, RISK_MEDIUM - 1, RISK_MEDIUM + 1,
          RISK_HIGH - 1, RISK_HIGH + 1, RISK_CRITICAL - 1, RISK_CRITICAL + 1}
    \cup {8200}

InitEngine ==
    /\ CollectorInit
    /\ consent = FALSE
    /\ ServerInit
    /\ dateNow \in {0, COLLECTION_INTERVAL_MS}
    /\ \/ inRisk \in 0..MAX_RISK /\ inFlags = {}
       \/ inRisk \in RiskGrid /\ inFlags \in SUBSET AnomalyTags
    /\ serverResponse = Pending
    /\ deviceResponse = Pending
    /\ ThreadsIdle
    /\ PairInit
    /\ FeatureInit
    /\ ScopeInit
    /\ ActivityInit

NextEngine ==
    \/ evaluateOnServer /\ UNCHANGED <<collectorVars, serverVars, threadVars, deviceVars, pairVars, featureVars, scopeVars, activityVars>>
    \/ evaluateOnDevice /\ UNCHANGED <<collectorVars, serverVars, threadVars, deviceVars, pairVars, featureVars, scopeVars, activityVars>>

SpecEngine == InitEngine /\ [][NextEngine]_vars

\* The server pipeline, call after call
InitServer ==
    /\ CollectorInit
    /\ consent = FALSE
    /\ EngineIdle
    /\ ServerInit
    /\ ThreadsIdle
    /\ PairInit
    /\ FeatureInit
    /\ ScopeInit
    /\ ActivityInit

NextServer ==
    /\ receiveMetrics
    /\ UNCHANGED <<collectorVars, inRisk, inFlags, serverResponse, deviceResponse,
                   threadVars, deviceVars, pairVars, featureVars, scopeVars, activityVars>>

SpecServer == InitServer /\ [][NextServer]_vars

\* The on-device pipeline, callback after callback
NextDevice ==
    /\ deviceReceiveMetrics
    /\ UNCHANGED <<collectorVars, engineVars, serverVars, threadVars, pairVars, featureVars, scopeVars, activityVars>>

SpecDevice == InitServer /\ [][NextDevice]_vars

\* The server on two records that differ at most in their feature vectors
InitPair ==
    /\ CollectorInit
    /\ consent = FALSE
    /\ EngineIdle
    /\ ServerInit
    /\ calls = [c \in Callers |-> IdleCall]
    /\ tick = IdleTick
    /\ sessionFirstSeq = 0
    /\ dev = DeviceIdle
    /\ \E m \in PairInputs, fa \in FeatureBundles, fb \in FeatureBundles :
          pair = Pair(FullMetrics(m, fa), FullMetrics(m, fb), FALSE,
                      <<>>, <<>>, <<>>, <<>>)
    /\ FeatureInit
    /\ ScopeInit
    /\ ActivityInit

NextPair ==
    /\ processPair
    /\ UNCHANGED <<collectorVars, engineVars, serverVars, threadVars, deviceVars, featureVars, scopeVars, activityVars>>

SpecPair == InitPair /\ [][NextPair]_vars

\* The extractors on every snapshot of every category
InitFeatures ==
    /\ CollectorInit
    /\ consent = FALSE
    /\ EngineIdle
    /\ ServerInit
    /\ ThreadsIdle
    /\ PairInit
    /\ \E category \in Categories : \E snapshot \in Snapshots(category) :
          feat = [FeatureIdle EXCEPT !.category = category, !.snapshot = snapshot]
    /\ ScopeInit
    /\ ActivityInit

NextFeatures ==
    /\ extractFeatures
    /\ UNCHANGED <<collectorVars, engineVars, serverVars, threadVars, deviceVars, pairVars,
                   scopeVars, activityVars>>

SpecFeatures == InitFeatures /\ [][NextFeatures]_vars

\* The collector's calls, cleanup among them, at one instant
CleanupStep ==
    UNCHANGED <<engineVars, serverVars, threadVars, deviceVars, pairVars, featureVars,
                activityVars>>

NextCleanup ==
    \/ startCollection /\ CollectorStep
    \/ stopCollection /\ CollectorStep
    \/ onTouchEvent /\ CollectorStep
    \/ onTypingEvent /\ CollectorStep
    \/ onNavigationEvent /\ CollectorStep
    \/ \E eventIsNull \in BOOLEAN : onSensorChanged(eventIsNull) /\ CollectorStep
    \/ cleanup /\ CleanupStep

SpecCleanup == Init /\ [][NextCleanup]_vars

\* The activity with its collector
ActivityStep ==
    UNCHANGED <<engineVars, serverVars, threadVars, pairVars, featureVars, scopeVars>>

NextActivity ==
    \/ startBiometricCollection /\ ActivityStep
    \/ stopBiometricCollection /\ ActivityStep
    \/ activityPeriodicTick /\ ActivityStep
    \/ processingCoroutine /\ ActivityStep
    \/ advanceClock /\ UNCHANGED <<dev, activity>> /\ ActivityStep

SpecActivity == Init /\ [][NextActivity]_vars

\* The collector with its callers and its tick loop as concurrent threads
InitThreads ==
    /\ CollectorInit
    /\ consent = TRUE
    /\ EngineIdle
    /\ ServerInit
    /\ ThreadsIdle
    /\ PairInit
    /\ FeatureInit
    /\ ScopeInit
    /\ ActivityInit

ThreadsStep == UNCHANGED <<engineVars, serverVars, deviceVars, pairVars, featureVars, scopeVars, activityVars>>

\* Touch callbacks from two threads, while the session is started and stopped
NextCalls ==
    \/ threadsStart /\ ThreadsStep
    \/ threadsStop /\ ThreadsStep
    \/ \E c \in Callers : touchEnter(c) /\ ThreadsStep
    \/ \E c \in Callers : touchEvict(c) /\ ThreadsStep
    \/ \E c \in Callers : touchAdd(c) /\ ThreadsStep

SpecCalls == InitThreads /\ [][NextCalls]_vars

\* Sensor callbacks from the sensor thread, while the tick loop runs
NextTick ==
    \/ threadsStart /\ ThreadsStep
    \/ threadsStop /\ ThreadsStep
    \/ sensorEnter(SensorThread) /\ ThreadsStep
    \/ sensorTrim(SensorThread) /\ ThreadsStep
    \/ tickWake /\ ThreadsStep
    \/ tickIterate /\ ThreadsStep
    \/ tickCallback /\ ThreadsStep
    \/ tickPurgeScan /\ ThreadsStep
    \/ tickPurgeTrim /\ ThreadsStep
    \/ tickDone /\ ThreadsStep
    \/ threadsClock /\ ThreadsStep

SpecTick == InitThreads /\ [][NextTick]_vars

(***************************************************************************)
(* Properties.                                                             *)
(***************************************************************************)
\* The variant of the response: None, SilentChallenge, StepUpChallenge,
\* SessionTerminate or AccountLock.
Kind(response) ==
    CASE response = NoResponse -> "None"
      [] response.type = "account_lock" /\ response.severity = "critical" -> "AccountLock"
      [] response.type = "session_termination" /\ response.severity = "high"
            -> "SessionTerminate"
      [] response.type \in {"silent_faceid", "otp_challenge"}
            /\ response.severity = "medium" -> "StepUpChallenge"
      [] response.type = "silent_faceid" /\ response.severity = "low"
            /\ ~response.requiresUserAction -> "SilentChallenge"
      [] OTHER -> "Unknown"

\* C1: once a tick of a session was answered with session_termination or
\* account_lock, every later tick of the same session is answered with one
\* of the two as well, never with null, a silent or a step-up challenge.
C1_NoDowngradeAfterTerminal ==
    [][\A s \in SessionIds :
          (s \in terminalSessions /\ metrics'.sessionId = s /\ srv'.result = "returned")
             => Kind(srv'.response) \in {"SessionTerminate", "AccountLock"}]_vars

\* C2: between ingestion calls every buffer holds at most its cap: the
\* touch, typing and sensor caps, and a finite cap for navigation.
C2_AllBuffersWithinCap ==
    /\ Len(touchEvents) <= MAX_TOUCH_EVENTS
    /\ Len(typingEvents) <= MAX_TYPING_EVENTS
    /\ Len(sensorData) <= MAX_SENSOR_SAMPLES
    /\ Len(navigationEvents) <= MAX_NAVIGATION_EVENTS

\* The last n entries of s, in order.
LastN(s, n) == IF Len(s) <= n THEN s ELSE SubSeq(s, Len(s) - n + 1, Len(s))

\* C3: a touch, typing or sensor event that is accepted is appended at the
\* tail, and the buffer then holds the most recent `cap` entries in arrival
\* order: at capacity exactly the head was removed.
C3_FifoEviction ==
    [][/\ (lastOp' = "onTouchEvent" /\ eventSeq' # eventSeq)
             => touchEvents' = LastN(Append(touchEvents, NewEvent), MAX_TOUCH_EVENTS)
       /\ (lastOp' = "onTypingEvent" /\ eventSeq' # eventSeq)
             => typingEvents' = LastN(Append(typingEvents, NewEvent), MAX_TYPING_EVENTS)
       /\ (lastOp' = "onSensorChanged" /\ eventSeq' # eventSeq)
             => sensorData' = LastN(Append(sensorData, NewEvent), MAX_SENSOR_SAMPLES)]_vars

\* The touch buffer was full twice over and has evicted its two oldest
\* entries: the first session, no purge yet, events 1 and 2 gone.
C3_Witness ==
    /\ lastOp = "onTouchEvent"
    /\ now = 0 /\ sessionId = 1 /\ isCollecting
    /\ typingEvents = <<>> /\ sensorData = <<>> /\ navigationEvents = <<>>
    /\ eventSeq = MAX_TOUCH_EVENTS + 2
    /\ Len(touchEvents) = MAX_TOUCH_EVENTS
    /\ touchEvents[1].seq = 3

\* The tier the claim gives a score (in 1/10000).
ClaimedKind(r) ==
    CASE r < 3000 -> "None"
      [] 3000 <= r /\ r < 6000 -> "SilentChallenge"
      [] 6000 <= r /\ r < 8000 -> "StepUpChallenge"
      [] 8000 <= r /\ r < 9500 -> "SessionTerminate"
      [] r >= 9500 -> "AccountLock"

\* C4: both engines answer every score in [0,1] with the tier of its
\* half-open interval: boundary values belong to the higher tier.
C4_TierBoundaries ==
    /\ serverResponse # Pending => Kind(serverResponse) = ClaimedKind(inRisk)
    /\ deviceResponse # Pending => Kind(deviceResponse) = ClaimedKind(inRisk)

\* Both engines have answered the boundary score 0.95 with the account lock.
C4_Witness ==
    /\ inRisk = 9500
    /\ Kind(serverResponse) = "AccountLock"
    /\ Kind(deviceResponse) = "AccountLock"

\* The method the claim gives a set of tags.
ClaimedMethod(T) ==
    IF T \cap {"device_anomaly", "location_anomaly"} # {} THEN "silent_faceid"
    ELSE IF T \cap {"typing_anomaly", "navigation_anomaly"} # {} THEN "otp_challenge"
    ELSE "silent_faceid"

\* C5: for a score of the step-up tier the method of the challenge is the
\* one the tags select: biometric for a device or location anomaly, else OTP
\* for a typing or navigation anomaly, else biometric.
C5_MethodFollowsTags ==
    \A response \in {serverResponse, deviceResponse} :
        (response # Pending /\ 6000 <= inRisk /\ inRisk < 8000)
           => response.type = ClaimedMethod(inFlags)

\* C6, as claimed: risk 0.82 with the tag typing_anomaly is answered with
\* an OTP step-up challenge, severity medium, expiring 300 s after the tick.
C6_StepUpAt082 ==
    (serverResponse # Pending /\ inRisk = 8200 /\ inFlags = {"typing_anomaly"})
       => serverResponse = Response("otp_challenge", "medium", TRUE, {dateNow + 300000})

\* C6, amended: risk 0.82 with the tag typing_anomaly is answered with the
\* session termination, severity high, user action required, no expiry; the
\* OTP step-up challenge of severity medium expiring 300 s after the tick is
\* the answer to every score in [0.6, 0.8) with that tag.
C6_TerminateAt082 ==
    /\ (serverResponse # Pending /\ inRisk = 8200 /\ inFlags = {"typing_anomaly"})
          => serverResponse = Response("session_termination", "high", TRUE, {})
    /\ (serverResponse # Pending /\ 6000 <= inRisk /\ inRisk < 8000
           /\ inFlags = {"typing_anomaly"})
          => serverResponse = Response("otp_challenge", "medium", TRUE, {dateNow + 300000})

C6_Witness ==
    /\ inRisk = 8200 /\ inFlags = {"typing_anomaly"}
    /\ serverResponse.type = "session_termination"

AllEvents ==
    {touchEvents[i] : i \in 1..Len(touchEvents)}
    \cup {typingEvents[i] : i \in 1..Len(typingEvents)}
    \cup {sensorData[i] : i \in 1..Len(sensorData)}
    \cup {navigationEvents[i] : i \in 1..Len(navigationEvents)}

\* C7: when an extraction tick has ended, normally or by a caught exception,
\* no buffer holds an event older than the tick time less two intervals.
C7_RetentionBound ==
    (lastOp = "periodicTick" /\ isCollecting)
       => \A e \in AllEvents : e.timestamp >= now - 2 * COLLECTION_INTERVAL_MS

IngestionOps == {"onTouchEvent", "onTypingEvent", "onNavigationEvent", "onSensorChanged"}

\* C8: an ingestion call made while the collector is not collecting or
\* consent is not granted changes no buffer and raises no error.
C8_IngestionGated ==
    [][(lastOp' \in IngestionOps /\ (~isCollecting \/ ~consent))
          => (buffers' = buffers /\ lastError' = "none")]_vars

\* C9: startCollection without consent (the collector not collecting) throws
\* and changes nothing: not the flag, the session id, the start time, a
\* buffer, the sensor registration or the tick loops.
C9_StartWithoutConsent ==
    [][(lastOp' = "startCollection" /\ ~isCollecting /\ ~consent)
          => /\ lastError' = "SecurityException"
             /\ isCollecting' = FALSE
             /\ sessionId' = sessionId
             /\ sessionStartTime' = sessionStartTime
             /\ buffers' = buffers
             /\ sensorRegistered' = sensorRegistered
             /\ loops' = loops
             /\ callbacks' = 0]_vars

\* A start was refused after an earlier session whose tick loop is still alive.
C9_Witness ==
    /\ lastOp = "startCollection" /\ lastError = "SecurityException"
    /\ sessionId = 1 /\ sessionStartTime = 5000 /\ loops # <<>>

\* C10: startCollection while collecting and stopCollection while not
\* collecting return normally and change neither the session id, the start
\* time, the flag, a buffer nor the tick loops, and invoke no data callback.
C10_DuplicateStartStop ==
    [][(\/ lastOp' = "startCollection" /\ isCollecting
        \/ lastOp' = "stopCollection" /\ ~isCollecting)
          => /\ lastError' = "none"
             /\ sessionId' = sessionId
             /\ sessionStartTime' = sessionStartTime
             /\ isCollecting' = isCollecting
             /\ buffers' = buffers
             /\ sensorRegistered' = sensorRegistered
             /\ loops' = loops
             /\ callbacks' = 0]_vars

\* A second start in a session that has collected events: they are still there.
C10_Witness ==
    /\ lastOp = "startCollection" /\ lastError = "none" /\ isCollecting
    /\ touchEvents # <<>> /\ navigationEvents # <<>>

\* C11: stopCollection on a collecting session invokes dataCallback exactly
\* once (the final tick), and when it returns the four buffers are empty and
\* isCollecting is false.
C11_DrainOnStop ==
    [][(isCollecting /\ lastOp' = "stopCollection")
          => /\ callbacks' = 1
             /\ touchEvents' = <<>> /\ typingEvents' = <<>>
             /\ sensorData' = <<>> /\ navigationEvents' = <<>>
             /\ ~isCollecting']_vars

\* C12: a session that starts begins with the four buffers empty, and while
\* a session collects no buffer holds an event whose ingestion call began
\* before that session started (so no snapshot of the session can contain
\* one), calls in progress across a stop included.
C12_NoCrossSessionLeakage ==
    [][/\ (~isCollecting /\ isCollecting')
            => /\ touchEvents' = <<>> /\ typingEvents' = <<>>
               /\ sensorData' = <<>> /\ navigationEvents' = <<>>
       /\ isCollecting'
            => \A i \in 1..Len(touchEvents') :
                  touchEvents'[i].seq > sessionFirstSeq']_vars

\* C13: under any interleaving of concurrent ingestion calls on the touch
\* buffer, the buffer never holds more than its capacity.
C13_ConcurrentPushWithinCapacity ==
    Len(touchEvents) <= MAX_TOUCH_EVENTS

\* C14: a tick interleaved with concurrent pushes ends without an exception,
\* and its purge removes no event whose timestamp is not below the cutoff.
C14_SnapshotPurgeCycle ==
    tick.error = "none" /\ ~tick.lostFresh

\* C15: a call that determines a response other than None emits exactly one
\* fraud_alert, also when storing the alert fails; a call whose response is
\* None emits none.
C15_AlertEmittedOnce ==
    srv.result = "returned" => (srv.alertEmitted <=> srv.response # NoResponse)

\* C16: the similarity service is queried exactly when the risk score is at
\* least 0.6.
C16_RagQueriedFromMedium ==
    srv.result = "returned" => (srv.ragQueried <=> metrics.riskScore >= 6000)

\* C17: for a valid, stored record with a response other than None, the call
\* returns its response whatever the similarity service does.
C17_DispatchIndependentOfSimilarity ==
    (validateMetrics(metrics) /\ srv.stored /\ srv.response # NoResponse)
        => srv.result = "returned"

\* C18: for a valid record the call returns a response also when storing
\* the anonymized record fails.
C18_StoreFailureDoesNotHalt ==
    (validateMetrics(metrics) /\ srv.result # "idle" /\ ~srv.stored)
        => (srv.result = "returned" /\ srv.response # Pending)

\* C19: a tick that catches an exception leaves its loop running, scheduled
\* one interval later; and while the session stays collecting, every time the
\* clock reaches the next interval a loop is due for its tick at that time.
C19_TickLoopSurvivesException ==
    [][/\ (lastOp' = "periodicTick" /\ isCollecting /\ caught')
            => /\ Len(loops') = Len(loops)
               /\ \E i \in 1..Len(loops') :
                     loops'[i] = now' + COLLECTION_INTERVAL_MS
       /\ (isCollecting /\ isCollecting' /\ now' > now)
            => \E i \in 1..Len(loops) : loops[i] = now']_vars

\* a tick at the second interval has caught an exception, the session still
\* collects and the loop is scheduled for the third interval
C19_Witness ==
    /\ lastOp = "periodicTick" /\ caught /\ isCollecting
    /\ now = 2 * COLLECTION_INTERVAL_MS
    /\ \E i \in 1..Len(loops) : loops[i] = 3 * COLLECTION_INTERVAL_MS

\* C20: when predict throws, the callback still determines the response
\* None (for the fallback score 0) and exports the anonymized record.
C20_ClassifierFallback ==
    (dev.result # "idle" /\ ~dev.predicted)
        => (dev.response = NoResponse /\ dev.exported)

\* C21: two records that differ only in the four feature vectors give the
\* same stored rows and the same alerts, and neither a feature vector nor
\* the raw userId is in a row or an alert, only the hash of the userId.
C21_OutputsIndependentOfFeatures ==
    (pair.done /\ \A f \in DOMAIN pair.a \ FeatureFields : pair.a[f] = pair.b[f])
        => /\ pair.rowsA = pair.rowsB
           /\ pair.alertsA = pair.alertsB
           /\ \A i \in 1..Len(pair.rowsA) :
                 /\ DOMAIN pair.rowsA[i] \cap (FeatureFields \cup {"userId"}) = {}
                 /\ pair.rowsA[i].user_hash = hashUserId(pair.a.userId)
                 /\ pair.rowsA[i].user_hash # pair.a.userId
           /\ \A i \in 1..Len(pair.alertsA) :
                 /\ DOMAIN pair.alertsA[i] \cap (FeatureFields \cup {"userId"}) = {}
                 /\ pair.alertsA[i].userHash = hashUserId(pair.a.userId)
                 /\ pair.alertsA[i].userHash # pair.a.userId

\* both records were processed, they differ in every feature vector, and a
\* row and an alert were written
C21_Witness ==
    /\ pair.done
    /\ \A f \in FeatureFields : pair.a[f] # pair.b[f]
    /\ pair.rowsA # <<>> /\ pair.alertsA # <<>>

\* The length the specification gives the vector of a category
ClaimedLength(category) ==
    CASE category = "typing" -> 10
      [] category = "touch" -> 10
      [] category = "orientation" -> 8
      [] category = "navigation" -> 6

\* The snapshot the specification calls empty: no event, or, for the
\* orientation, no accelerometer sample
ClaimedEmpty(category, snapshot) ==
    IF category = "orientation"
    THEN \A i \in 1..Len(snapshot) : snapshot[i].sensorType # TYPE_ACCELEROMETER
    ELSE snapshot = <<>>

\* C22: for every snapshot the vector of a category has the category's
\* fixed length (typing 10, touch 10, orientation 8, navigation 6), and an
\* empty snapshot (for the orientation: one without accelerometer samples)
\* gives the all-zero vector of that length.
C22_FeatureVectorLengths ==
    feat.done =>
        /\ Len(feat.vector) = ClaimedLength(feat.category)
        /\ ClaimedEmpty(feat.category, feat.snapshot) =>
              \A i \in 1..Len(feat.vector) : feat.vector[i] = 0

\* a full snapshot of gyroscope samples only has been extracted
C22_Witness ==
    /\ feat.done
    /\ feat.category = "orientation"
    /\ Len(feat.snapshot) = MaxSnapshot
    /\ \A i \in 1..Len(feat.snapshot) : feat.snapshot[i].sensorType = TYPE_GYROSCOPE
    /\ feat.vector = FloatArray(8)

\* The attributes the claim fixes for the tier of score r, evaluated at time t
ClaimedAttributes(response, r, t) ==
    CASE ClaimedKind(r) = "SilentChallenge" ->
            /\ response.severity = "low"
            /\ ~response.requiresUserAction
            /\ response.expiresAt = {}
      [] ClaimedKind(r) = "StepUpChallenge" ->
            /\ response.severity = "medium"
            /\ response.expiresAt = {t + STEP_UP_EXPIRY_MS}
      [] ClaimedKind(r) = "SessionTerminate" ->
            /\ response.severity = "high"
            /\ response.requiresUserAction
            /\ response.expiresAt = {}
      [] ClaimedKind(r) = "AccountLock" ->
            /\ response.severity = "critical"
            /\ response.requiresUserAction
            /\ response.expiresAt = {}
      [] OTHER -> response.expiresAt = {}

\* C23: on both engines the attributes of a response are fixed by the tier
\* of the score: silent challenge low and without user action, step-up
\* medium and expiring 5 minutes after the evaluation, session termination
\* high and account lock critical with user action; only the step-up
\* response carries an expiry.
C23_TierAttributes ==
    /\ serverResponse # Pending => ClaimedAttributes(serverResponse, inRisk, dateNow)
    /\ deviceResponse # Pending => ClaimedAttributes(deviceResponse, inRisk, dateNow)

\* A periodic tick is inside processCollectedData: between the first read
\* of a buffer and the end of the purge.
TickInFlight == tick.pc \in {"iterate", "callback", "scan", "trim"}

\* C24: stopCollection never tears the session down (drain, then clear of
\* the four buffers) while a periodic tick is in flight: the tick completes
\* first, so it never reads buffers the stop has cleared.
C24_StopWaitsForTick ==
    [][(isCollecting /\ ~isCollecting') => ~TickInFlight]_vars

\* The sensor samples the tick in progress has copied
Copied == {tick.snapshot[i] : i \in 1..Len(tick.snapshot)}

\* C25: a sample pushed after the tick has taken its snapshot of the sensor
\* buffer, and not older than the cutoff, is not removed by that tick's
\* purge: every step of the purge leaves it in the buffer.
C25_MidTickPushSurvives ==
    [][(tick.pc \in {"scan", "trim"} /\ tick' # tick) =>
          \A i \in 1..Len(sensorData) :
              (sensorData[i] \notin Copied
                 /\ ~(sensorData[i].timestamp < tick.cutoffTime))
              => \E j \in 1..Len(sensorData') : sensorData'[j] = sensorData[i]]_vars

\* C26: at most one coroutine of startPeriodicProcessing is alive, whatever
\* the sequence of startCollection and stopCollection calls, so a session
\* gets at most one periodic tick per interval.
C26_SingleTickLoop == Len(loops) <= 1

\* C27: once cleanup() has run, the four buffers are empty, and they stay
\* empty whatever ingestion call follows, whether or not the session was
\* collecting when cleanup ran.
C27_EmptyAfterCleanup ==
    ~scopeActive =>
        /\ touchEvents = <<>>
        /\ typingEvents = <<>>
        /\ sensorData = <<>>
        /\ navigationEvents = <<>>

\* C28: a call on an invalid record (userId, sessionId or timestamp missing,
\* riskScore or confidenceLevel outside [0,1]) throws before any side
\* effect: no row stored, no similarity query, no analysis stored, no alert
\* persisted or emitted.
C28_InvalidRecordNoSideEffect ==
    (srv.result # "idle" /\ ~validateMetrics(metrics)) =>
        /\ srv.result = "threw"
        /\ ~srv.stored
        /\ ~srv.ragQueried
        /\ ~srv.analysisStored
        /\ ~srv.alertStored
        /\ ~srv.alertEmitted

\* a record with a critical score and no userId has been refused
C28_Witness ==
    /\ srv.result = "threw"
    /\ metrics.userId = ""
    /\ metrics.riskScore = RISK_CRITICAL
    /\ metrics.sessionId # "" /\ metrics.timestamp # 0

\* C29: on every score and every set of tags the two engines give the same
\* response type, severity and requiresUserAction, and no response for the
\* same scores.
C29_EnginesAgree ==
    (serverResponse # Pending /\ deviceResponse # Pending) =>
        /\ deviceResponse.type = serverResponse.type
        /\ deviceResponse.severity = serverResponse.severity
        /\ deviceResponse.requiresUserAction = serverResponse.requiresUserAction

\* C30: after stopBiometricCollection has completed and until the next
\* start, isCollectingBiometrics is false, currentRiskScore is 0 and
\* securityStatus is "Inactive": the processing of the final drain tick
\* does not overwrite them.
C30_InactiveAfterStop ==
    activity.stopped =>
        /\ ~activity.isCollectingBiometrics
        /\ dev.currentRiskScore = 0
        /\ activity.securityStatus = "Inactive"

=============================================================================
